---- MODULE Spec2Model ----
(***************************************************************************)
(* Model of the event translator of the chat service:                      *)
(*   app/services/chat.py          ChatService.stream_response             *)
(*   app/services/stream_events.py the event emitters                      *)
(* stream_response is an async generator.  A session record holds the      *)
(* generator's locals and the place where it is suspended; one action      *)
(* runs the code between two suspension points (a yield or an await).      *)
(* Texts are sequences of one-character strings, so that concatenation,    *)
(* slicing, splitting and stripping are computed as Python computes them.  *)
(***************************************************************************)
EXTENDS Integers, Sequences, FiniteSets, TLC

VARIABLES sess, clock, pref_file, tape, running, sys_stdout, buffers,
          store, reply, written, suggestions, prompt

\* The tool gateway's part of the state: the calls of run_python_analysis
\* under way (running), the process-wide standard output (sys_stdout) and what
\* has been written to each stream (buffers).
analysis == <<running, sys_stdout, buffers>>

\* The preference files by path (store), what the last call of a tool or
\* reader gave its caller (reply) and, for the properties, the last entry
\* written under each (user, category) key (written).
gateway == <<store, reply, written>>

\* The global-suggestion files by directory and id (suggestions) and the
\* global lessons written into the router's system prompt (prompt).
lessons == <<suggestions, prompt>>

vars == <<sess, clock, pref_file, tape, running, sys_stdout, buffers,
          store, reply, written, suggestions, prompt>>

(* ------------------------------ bounds --------------------------------- *)

\* Largest number of messages the orchestrator's update stream delivers.
MaxStream == 4

\* Sessions: 1 is the session under study, 2 a second run of the translator.
Sess == {1, 2}

(* ------------------------------ texts ---------------------------------- *)

\* A dictionary key that is absent / an attribute that is None.
NoKey == "<none>"

Whitespace == {" ", "\n", "\t"}

RECURSIVE LStrip(_)
LStrip(t) ==
    IF t # <<>> /\ Head(t) \in Whitespace THEN LStrip(Tail(t)) ELSE t

RECURSIVE RStrip(_)
RStrip(t) ==
    IF t # <<>> /\ t[Len(t)] \in Whitespace
    THEN RStrip(SubSeq(t, 1, Len(t) - 1))
    ELSE t

\* str.strip()
Strip(t) == RStrip(LStrip(t))

\* t[:n]
Prefix(t, n) == SubSeq(t, 1, IF Len(t) < n THEN Len(t) ELSE n)

\* str.split(): the maximal runs of non-whitespace characters, in order.
RECURSIVE SplitFrom(_, _, _)
SplitFrom(t, word, acc) ==
    IF t = <<>>
    THEN IF word = <<>> THEN acc ELSE Append(acc, word)
    ELSE IF Head(t) \in Whitespace
         THEN SplitFrom(Tail(t), <<>>, IF word = <<>> THEN acc ELSE Append(acc, word))
         ELSE SplitFrom(Tail(t), Append(word, Head(t)), acc)

Split(t) == SplitFrom(t, <<>>, <<>>)

\* sep.join(parts)
RECURSIVE Join(_, _)
Join(parts, sep) ==
    IF parts = <<>> THEN <<>>
    ELSE IF Len(parts) = 1 THEN parts[1]
    ELSE parts[1] \o sep \o Join(Tail(parts), sep)

(* ------------------------- stream_events.py ---------------------------- *)

\* Every field an event of any kind can carry; a field an event does not
\* carry keeps the value given here.
NoEvent ==
    [kind |-> "", type |-> "", visibility |-> "", display_title |-> "",
     display_icon |-> "", display_status |-> "", action_id |-> "",
     display_summary |-> <<>>, chosen |-> "", text |-> <<>>, is_final |-> FALSE,
     source |-> "", stream_id |-> "", error |-> "", title |-> <<>>,
     summary |-> <<>>, has_tiers |-> FALSE, event_id |-> 0, timestamp |-> 0]

\* Display texts are sequences of string fragments: an f-string is the
\* sequence of its literal parts and its interpolated values.
TOOL_INFO ==
    [get_gene_dossier |-> [title |-> "Fetching Gene Information",
                           description |-> <<"Retrieves comprehensive gene data">>],
     run_python_analysis |-> [title |-> "Running Custom Analysis",
                              description |-> <<"Executes specialized code">>],
     task |-> [title |-> "Delegating to Specialist",
               description |-> <<"Assigning to domain expert">>]]

SUBAGENT_INFO ==
    ("genetic-discovery-agent" :> [title |-> "Genetic Discovery Specialist"])
    @@ ("variant-analyst-agent" :> [title |-> "Variant Analysis Specialist"])

get_tool_info(tool_name) ==
    IF tool_name \in DOMAIN TOOL_INFO
    THEN TOOL_INFO[tool_name]
    ELSE [title |-> tool_name, description |-> <<"Executes ", tool_name>>]

get_subagent_info(subagent_type) ==
    IF subagent_type \in DOMAIN SUBAGENT_INFO
    THEN SUBAGENT_INFO[subagent_type]
    ELSE [title |-> subagent_type]

\* dict.get(key, default) on a dict kept as a sequence of <<key, value>> pairs.
DictGet(d, key, default) ==
    IF \E i \in 1..Len(d) : d[i][1] = key
    THEN d[CHOOSE i \in 1..Len(d) : d[i][1] = key][2]
    ELSE default

\* The label format_args_summary gives one argument.
\* The parts format_args_summary appends for one argument: one part, or none
\* for the keys it leaves out.
ArgPart(kv) ==
    IF kv[1] \in {"gene_symbol", "gene"} THEN << <<"Gene: ", kv[2]>> >>
    ELSE IF kv[1] \in {"uniprot_id", "protein_id"} THEN << <<"Protein: ", kv[2]>> >>
    ELSE IF kv[1] = "variant" THEN << <<"Variant: ", kv[2]>> >>
    ELSE IF kv[1] \notin {"description", "task_description", "subagent_type"}
         THEN << <<kv[1], ": ", kv[2]>> >>
    ELSE <<>>

RECURSIVE ArgParts(_)
ArgParts(args) ==
    IF args = <<>> THEN <<>> ELSE ArgPart(Head(args)) \o ArgParts(Tail(args))

\* format_args_summary: the parts joined by " | ", "" when there is none.
format_args_summary(args) == Join(ArgParts(args), <<" | ">>)

\* The manifest: event_id, stream_id, expected_events, the tiers it supports
\* (transparency_support) and timestamp.  It has no type field and no
\* visibility of its own.
emit_stream_start(stream_id) ==
    [NoEvent EXCEPT !.kind = "meta", !.stream_id = stream_id, !.has_tiers = TRUE]

emit_thinking(thinking_type, summary, chosen, visibility) ==
    [NoEvent EXCEPT !.kind = "thinking", !.type = thinking_type,
                    !.visibility = visibility, !.display_summary = summary,
                    !.chosen = chosen]

\* The parameters of emit_action that have no default value.
emit_action_required == {"action_type", "display_title", "display_icon", "status"}

\* emit_action(**kw): binding the keyword arguments fails with a TypeError
\* when a parameter without a default is not passed.
emit_action(kw) ==
    IF emit_action_required \subseteq DOMAIN kw
    THEN [raised |-> FALSE,
          event |-> [NoEvent EXCEPT !.kind = "action", !.type = kw.action_type,
                                    !.visibility = kw.visibility,
                                    !.display_title = kw.display_title,
                                    !.display_icon = kw.display_icon,
                                    !.display_status = kw.status,
                                    !.action_id = kw.action_id,
                                    !.display_summary = kw.display_summary]]
    ELSE [raised |-> TRUE, event |-> NoEvent]

emit_content(text, is_final, source, visibility) ==
    [NoEvent EXCEPT !.kind = "content", !.text = text, !.is_final = is_final,
                    !.source = source, !.visibility = visibility]

\* emit_meta(meta_type, payload): the payload's fields are merged over the
\* envelope (data.update(payload)) of event_id, type and timestamp.
emit_meta(meta_type, payload) ==
    [f \in DOMAIN NoEvent |->
        IF f \in DOMAIN payload THEN payload[f]
        ELSE IF f = "kind" THEN "meta"
        ELSE IF f = "type" THEN meta_type
        ELSE NoEvent[f]]

(* ------------------------------ inputs --------------------------------- *)

\* Message content: a string, or a list of typed blocks.
StrContent(t) == [k |-> "str", s |-> t, blocks |-> <<>>]
ListContent(b) == [k |-> "list", s |-> <<>>, blocks |-> b]

TextBlock(t) == [type |-> "text", text |-> t]
ImageBlock == [type |-> "image_url", text |-> <<>>]

EmptyText == StrContent(<<>>)
PaddedText == StrContent(<<" ", "a">>)
PlainText == StrContent(<<"x">>)
MixedBlocks == ListContent(<<TextBlock(<<"b">>), ImageBlock, TextBlock(<<"c">>)>>)
ImageOnly == ListContent(<<ImageBlock>>)

Contents == {EmptyText, PaddedText, PlainText, MixedBlocks, ImageOnly}

\* Contents of tool results: the tools return strings; a list comes from a
\* tool that answers in content blocks.
ResultContents == {EmptyText, PlainText, MixedBlocks}

\* Tool-call requests as the model produces them: dicts with name, id, args.
DelegationCall ==
    [name |-> "task", id |-> "c1",
     args |-> << <<"subagent_type", "genetic-discovery-agent">>,
                 <<"description", "Find LDLR">> >>]
DossierCall ==
    [name |-> "get_gene_dossier", id |-> "c2",
     args |-> << <<"gene_symbol", "LDLR">> >>]
\* A call of a tool the lookup does not know, arriving without an id.
AnonymousCall ==
    [name |-> "lookup_x", id |-> NoKey, args |-> << <<"q", "v">> >>]

ToolCallLists ==
    {<<DelegationCall>>, <<DossierCall>>, <<AnonymousCall>>,
     <<DelegationCall, DossierCall>>, <<DossierCall, DelegationCall>>}

\* tool_call_id of a tool-result message: None, empty, or an id.
ResultIds == {NoKey, "", "c1", "c2"}

AIMessage(calls, content) ==
    [type |-> "ai", tool_calls |-> calls, content |-> content, tool_call_id |-> NoKey]
ToolMessage(id, content) ==
    [type |-> "tool", tool_calls |-> <<>>, content |-> content, tool_call_id |-> id]

NoMsg == AIMessage(<<>>, EmptyText)

StreamMessages ==
    {AIMessage(<<>>, c) : c \in Contents}
    \cup {AIMessage(l, c) : l \in ToolCallLists, c \in {EmptyText, PlainText}}
    \cup {ToolMessage(i, c) : i \in ResultIds, c \in ResultContents}

\* What awaiting the next raw update yields: a message, the end of the
\* stream, or an exception raised by the orchestrator.
StreamItems ==
    {[kind |-> "msg", msg |-> m] : m \in StreamMessages}
    \cup {[kind |-> "end", msg |-> NoMsg], [kind |-> "raise", msg |-> NoMsg]}

\* Request conversations: dicts with role and, unless malformed, content.
UserText == <<"h", "i", " ", "y", "o">>
ReqMsg(role, text) == [role |-> role, has_content |-> TRUE, content |-> text]
NoContentMsg(role) == [role |-> role, has_content |-> FALSE, content |-> <<>>]

Conversations ==
    {<<>>,
     <<ReqMsg("user", UserText)>>,
     <<NoContentMsg("user")>>,
     <<ReqMsg("assistant", <<"o", "k">>), ReqMsg("user", UserText)>>,
     <<ReqMsg("user", UserText), ReqMsg("assistant", <<"o", "k">>),
       ReqMsg("user", <<"m", "o", "r", "e">>)>>}

\* The user's preferences file: absent, unreadable, or holding entries.
PrefFiles == {"absent", "corrupt", "stored"}

\* uuid4-derived stream ids.
StreamIds == {"str_a", "str_b"}

\* Outcomes of the secondary model call that writes title and summary.
TitleOutcomes == {"model_unavailable", "call_failed", "not_json", "not_a_dict", "ok"}

ModelTitle == <<"T">>
ModelSummary == <<"S">>

(* --------------------------- chat.py: session -------------------------- *)

\* The preference text the file yields: the header and one line per entry
\* when entries are stored, "" when the file is absent or cannot be read.
PrefsText == <<"\n", "#", " ", "P", "\n">>

LoadPreferences(file) == IF file = "stored" THEN PrefsText ELSE <<>>

\* The generator's locals, where it is suspended (pc), the events it has
\* yielded, the exception in hand (exc) and the one that left the generator
\* (propagated).  Kept for the properties only: whether the stream has ended
\* (exhausted), the text-bearing messages accumulated (accumulated), how
\* many items of Scenario the stream has delivered, -1 once it departs from
\* it (scenario), the caller's message list as it was passed (received), the
\* orchestrator's update sequence as the async for holds it (astream: not
\* yet created, open, or finished by its end or its own exception), how
\* the title step came out (title_outcome), and the message whose
\* translation raised (failed_on).
NewSession(conv) ==
    [pc |-> "created", messages |-> conv, received |-> conv, stream_id |-> "",
     user_prefs_text |-> <<>>, is_first_exchange |-> FALSE,
     user_first_message |-> <<>>, collected_content |-> <<>>,
     active_actions |-> <<>>, events |-> <<>>, msg |-> NoMsg, tc |-> 0,
     action_id |-> "", exc |-> "", propagated |-> "", consumed |-> 0,
     exhausted |-> FALSE, accumulated |-> <<>>, scenario |-> 0,
     astream |-> "none", title_outcome |-> "", failed_on |-> NoMsg]

\* The places where the generator is suspended at a yield.
Yields == {"y_start", "y_think", "y_action", "y_success", "y_content",
           "y_title", "y_end", "y_error"}

\* yield event
Emit(st, pc, event) == [st EXCEPT !.events = Append(@, event), !.pc = pc]

\* Fail with the stream id written into the error message.
FailNamingStream(st, e) ==
    Emit([st EXCEPT !.exc = e, !.failed_on = st.msg, !.msg = NoMsg, !.tc = 0,
                    !.action_id = ""], "y_error",
         emit_meta("error", [error |-> st.stream_id, stream_id |-> st.stream_id]))

\* except Exception as e: yield emit_meta("error", ...), then raise e.
Fail(st, e) ==
    Emit([st EXCEPT !.exc = e, !.failed_on = st.msg, !.msg = NoMsg, !.tc = 0,
                    !.action_id = ""], "y_error",
         emit_meta("error", [error |-> e, stream_id |-> st.stream_id]))

\* Begin going on to the update stream without sending the manifest.
BeginWithoutManifest(st, file, sid) ==
    LET prefs == LoadPreferences(file)
        inject == prefs # <<>> /\ st.messages # <<>> /\ st.messages[1].role = "user"
        msgs == IF inject THEN [st.messages EXCEPT ![1].content = prefs \o @]
                ELSE st.messages
        first == Cardinality({i \in 1..Len(msgs) : msgs[i].role = "user"}) = 1
    IN  IF inject /\ ~st.messages[1].has_content
        THEN [st EXCEPT !.stream_id = sid, !.user_prefs_text = prefs,
                        !.exc = "KeyError", !.propagated = "KeyError", !.pc = "raised"]
        ELSE [st EXCEPT !.stream_id = sid, !.user_prefs_text = prefs,
                        !.messages = msgs, !.is_first_exchange = first,
                        !.user_first_message =
                            IF first /\ msgs[1].has_content
                            THEN msgs[1].content ELSE <<>>,
                        !.pc = "fetch", !.astream = "open"]

\* Lines 54-93: the code run by the first request for an event.  The
\* preference text is prepended to messages[0]["content"] outside the try
\* block: a first user message without content raises KeyError there.
Begin(st, file, sid) ==
    LET prefs == LoadPreferences(file)
        inject == prefs # <<>> /\ st.messages # <<>> /\ st.messages[1].role = "user"
        msgs == IF inject THEN [st.messages EXCEPT ![1].content = prefs \o @]
                ELSE st.messages
        first == Cardinality({i \in 1..Len(msgs) : msgs[i].role = "user"}) = 1
    IN  IF inject /\ ~st.messages[1].has_content
        THEN [st EXCEPT !.stream_id = sid, !.user_prefs_text = prefs,
                        !.exc = "KeyError", !.propagated = "KeyError", !.pc = "raised"]
        ELSE Emit([st EXCEPT !.stream_id = sid, !.user_prefs_text = prefs,
                             !.messages = msgs, !.is_first_exchange = first,
                             !.user_first_message =
                                 IF first /\ msgs[1].has_content
                                 THEN msgs[1].content ELSE <<>>],
                  "y_start", emit_stream_start(sid))

\* f"act_{n}"
ActId(n) ==
    CASE n = 0 -> "act_0" [] n = 1 -> "act_1" [] n = 2 -> "act_2"
      [] n = 3 -> "act_3" [] n = 4 -> "act_4" [] n = 5 -> "act_5"
      [] n = 6 -> "act_6" [] n = 7 -> "act_7" [] OTHER -> "act_8"

\* d[key] = value on a dict kept as a sequence of <<key, value>> pairs.
DictSet(d, key, value) ==
    IF \E i \in 1..Len(d) : d[i][1] = key
    THEN [i \in 1..Len(d) |-> IF d[i][1] = key THEN <<key, value>> ELSE d[i]]
    ELSE Append(d, <<key, value>>)

DictHas(d, key) == \E i \in 1..Len(d) : d[i][1] = key

\* if content: a non-empty string or a non-empty list.
Truthy(c) == IF c.k = "str" THEN c.s # <<>> ELSE c.blocks # <<>>

\* " ".join of the texts of the text-typed blocks.
RECURSIVE TextsOf(_)
TextsOf(blocks) ==
    IF blocks = <<>> THEN <<>>
    ELSE (IF Head(blocks).type = "text" THEN <<Head(blocks).text>> ELSE <<>>)
         \o TextsOf(Tail(blocks))

FlattenBlocks(blocks) == Join(TextsOf(blocks), <<" ">>)

\* Line 114: the id of call st.tc, or a fallback made from the table's size.
ActionId(st) ==
    LET call == st.msg.tool_calls[st.tc]
    IN  IF call.id = NoKey THEN ActId(Len(st.active_actions)) ELSE call.id

\* The arguments chat.py passes to emit_action for a delegation (l. 145-153).
DelegationKw(st) ==
    LET call == st.msg.tool_calls[st.tc]
        subagent_type == DictGet(call.args, "subagent_type", "unknown")
        task_desc == DictGet(call.args, "description", "")
    IN  [action_type |-> "delegation",
         display_title |-> get_subagent_info(subagent_type).title,
         status |-> "running", action_id |-> st.action_id,
         display_summary |-> IF task_desc = "" THEN <<>> ELSE <<task_desc>>,
         visibility |-> "standard", raw_data |-> call.args]

\* The arguments chat.py passes to emit_action for a plain tool (l. 158-166).
ToolKw(st) ==
    LET call == st.msg.tool_calls[st.tc]
        tool_info == get_tool_info(DictGet(st.active_actions, st.action_id, NoKey).name)
        args_summary == format_args_summary(call.args)
    IN  [action_type |-> "tool", display_title |-> tool_info.title,
         status |-> "running", action_id |-> st.action_id,
         display_summary |-> IF args_summary # <<>> THEN args_summary
                             ELSE tool_info.description,
         visibility |-> "standard", raw_data |-> call.args]

\* The arguments chat.py passes to emit_action for a completion (l. 181-188).
SuccessKw(st) ==
    LET content == st.msg.content
        tool_name == DictGet(st.active_actions, st.msg.tool_call_id, NoKey).name
    IN  [action_type |-> IF tool_name # "task" THEN "tool" ELSE "delegation",
         display_title |-> get_tool_info(tool_name).title,
         status |-> "success", action_id |-> st.msg.tool_call_id,
         display_summary |-> IF ~Truthy(content) THEN <<"Completed">>
                             ELSE IF content.k = "str" THEN Prefix(content.s, 100)
                             ELSE <<"<blocks>">>,
         visibility |-> "standard"]

\* yield emit_action(**kw): the call raises before anything is yielded when
\* the arguments do not bind.
YieldAction(st, kw, pc) ==
    IF emit_action(kw).raised THEN Fail(st, "TypeError")
    ELSE Emit(st, pc, emit_action(kw).event)

\* Whether a message's content holds text, as a string or in a text block.
TextBearing(c) ==
    IF c.k = "str" THEN c.s # <<>>
    ELSE \E i \in 1..Len(c.blocks) : c.blocks[i].type = "text" /\ c.blocks[i].text # <<>>

\* Back to the async for: the message is done.  On the first exchange a
\* text-bearing message is noted in accumulated, with its content as it came.
NextUpdate(st) ==
    [st EXCEPT !.pc = "fetch", !.msg = NoMsg, !.tc = 0, !.action_id = "",
               !.accumulated =
                   IF st.is_first_exchange /\ TextBearing(st.msg.content)
                   THEN Append(@, [type |-> st.msg.type, content |-> st.msg.content])
                   ELSE @]

\* Lines 112-142 for call st.tc: register it, then announce it.  A delegation
\* yields its decision first and its action at the next request.
HandleToolCall(st) ==
    LET call == st.msg.tool_calls[st.tc]
        tool_name == IF call.name = NoKey THEN "unknown_tool" ELSE call.name
        tracked == [st EXCEPT !.action_id = ActionId(st),
                              !.active_actions =
                        DictSet(@, ActionId(st), [name |-> tool_name, args |-> call.args])]
        subagent_type == DictGet(call.args, "subagent_type", "unknown")
    IN  IF tool_name = "task"
        THEN Emit(tracked, "y_think",
                  emit_thinking("decision",
                                <<"Delegating to ", get_subagent_info(subagent_type).title>>,
                                subagent_type, "advanced"))
        ELSE YieldAction(tracked, ToolKw(tracked), "y_action")

\* Lines 192-195: a tool result's content is appended with a blank line; a
\* list cannot be concatenated with a string.
CollectToolResult(st) ==
    LET content == st.msg.content
    IN  IF Truthy(content) /\ st.is_first_exchange
        THEN IF content.k = "list" THEN Fail(st, "TypeError")
             ELSE NextUpdate([st EXCEPT !.collected_content = @ \o content.s \o <<"\n", "\n">>])
        ELSE NextUpdate(st)

\* CollectMessage sending each text to the client as it arrives.
CollectMessageStreamed(st) ==
    LET raw == st.msg.content
        content == IF raw.k = "list" THEN FlattenBlocks(raw.blocks) ELSE raw.s
    IN  IF content # <<>> /\ st.is_first_exchange
        THEN Emit(NextUpdate([st EXCEPT !.collected_content = @ \o content]), "y_start",
                  emit_content(content, FALSE, "agent", "minimal"))
        ELSE NextUpdate(st)

\* Lines 199-210: the text of any other message, list content flattened.
CollectMessage(st) ==
    LET raw == st.msg.content
        content == IF raw.k = "list" THEN FlattenBlocks(raw.blocks) ELSE raw.s
    IN  IF content # <<>> /\ st.is_first_exchange
        THEN NextUpdate([st EXCEPT !.collected_content = @ \o content])
        ELSE NextUpdate(st)

\* Lines 171-210: after the tool calls, the message as a tool result or as
\* a text message.
HandleBody(st) ==
    IF st.msg.type = "tool"
    THEN IF st.msg.tool_call_id \notin {NoKey, ""}
            /\ DictHas(st.active_actions, st.msg.tool_call_id)
         THEN YieldAction(st, SuccessKw(st), "y_success")
         ELSE CollectToolResult(st)
    ELSE CollectMessage(st)

\* One message from the point st.tc on, up to the next yield.
Translate(st) ==
    IF st.tc <= Len(st.msg.tool_calls) THEN HandleToolCall(st) ELSE HandleBody(st)

\* Lines 213-228 up to the next yield, entered when the stream is exhausted.
SendEnd(st) == Emit(st, "y_end", emit_meta("end", [stream_id |-> st.stream_id]))

\* Finalize sending the buffer as it is.
FinalizeUntrimmed(st) ==
    IF st.collected_content # <<>>
    THEN Emit(st, "y_content",
              emit_content(st.collected_content, TRUE, "agent", "minimal"))
    ELSE SendEnd(st)

Finalize(st) ==
    IF st.collected_content # <<>>
    THEN Emit(st, "y_content",
              emit_content(Strip(st.collected_content), TRUE, "agent", "minimal"))
    ELSE SendEnd(st)

\* Lines 222-228 after the content event.
AfterContent(st) ==
    IF st.is_first_exchange /\ st.collected_content # <<>>
    THEN [st EXCEPT !.pc = "title"]
    ELSE SendEnd(st)

\* Lines 32-33: the fallback title and summary.
FallbackMetadata(user_query) ==
    [title |-> Join(Prefix(Split(user_query), 6), <<" ">>),
     summary |-> Prefix(user_query, 100)]

\* _generate_thread_metadata and line 225.  get_model() is called before the
\* try block; a reply that parses to something other than a dict is
\* returned as it is and fails at metadata.get.
GenerateTitle(st0, outcome) ==
    LET st == [st0 EXCEPT !.title_outcome = outcome]
    IN  IF outcome = "model_unavailable" THEN Fail(st, "ModelError")
        ELSE IF outcome = "not_a_dict" THEN Fail(st, "AttributeError")
        ELSE
         LET metadata == IF outcome = "ok"
                         THEN [title |-> ModelTitle, summary |-> ModelSummary]
                         ELSE FallbackMetadata(st.user_first_message)
         IN  Emit(st, "y_title",
                  emit_meta("title", [title |-> metadata.title,
                                      summary |-> metadata.summary]))

\* The scenario of the specification's section 8: a delegation, a gene
\* dossier call, its result, the final answer, the end of the stream.
Scenario ==
    <<[kind |-> "msg", msg |-> AIMessage(<<DelegationCall>>, EmptyText)],
      [kind |-> "msg", msg |-> AIMessage(<<DossierCall>>, EmptyText)],
      [kind |-> "msg", msg |-> ToolMessage("c2", PlainText)],
      [kind |-> "msg", msg |-> AIMessage(<<>>, PlainText)],
      [kind |-> "end", msg |-> NoMsg]>>

Follows(st, item) ==
    IF st.scenario >= 0 /\ st.scenario < Len(Scenario) /\ item = Scenario[st.scenario + 1]
    THEN st.scenario + 1 ELSE -1

\* What the async for receives at line 96.
Receive(st, item) ==
    LET got == [st EXCEPT !.scenario = Follows(st, item)]
    IN  IF item.kind = "raise" THEN Fail([got EXCEPT !.astream = "finished"], "StreamError")
        ELSE IF item.kind = "end"
        THEN Finalize([got EXCEPT !.exhausted = TRUE, !.astream = "finished"])
        ELSE Translate([got EXCEPT !.msg = item.msg, !.tc = 1, !.consumed = @ + 1])

\* Continue with the handler at line 230 returning instead of raising.
ContinueSwallowing(st) ==
    CASE st.pc = "y_start" -> [st EXCEPT !.pc = "fetch", !.astream = "open"]
      [] st.pc = "y_think" -> YieldAction(st, DelegationKw(st), "y_action")
      [] st.pc = "y_action" -> Translate([st EXCEPT !.tc = @ + 1])
      [] st.pc = "y_success" -> CollectToolResult(st)
      [] st.pc = "y_content" -> AfterContent(st)
      [] st.pc = "y_title" -> SendEnd(st)
      [] st.pc = "y_end" -> [st EXCEPT !.pc = "done"]
      [] st.pc = "y_error" -> [st EXCEPT !.pc = "done"]

\* The generator resumed after the yield it is suspended at.
Continue(st) ==
    CASE st.pc = "y_start" -> [st EXCEPT !.pc = "fetch", !.astream = "open"]
      [] st.pc = "y_think" -> YieldAction(st, DelegationKw(st), "y_action")
      [] st.pc = "y_action" -> Translate([st EXCEPT !.tc = @ + 1])
      [] st.pc = "y_success" -> CollectToolResult(st)
      [] st.pc = "y_content" -> AfterContent(st)
      [] st.pc = "y_title" -> SendEnd(st)
      [] st.pc = "y_end" -> [st EXCEPT !.pc = "done"]
      [] st.pc = "y_error" -> [st EXCEPT !.pc = "raised", !.propagated = st.exc]

(* ------------------- tools/analysis.py: run_python_analysis ------------ *)

\* t[i:i+len(pat)] == pat for some i: the Python test  pat in t.
Contains(t, pat) ==
    \E i \in 1..(Len(t) - Len(pat) + 1) : SubSeq(t, i, i + Len(pat) - 1) = pat

forbidden_imports ==
    <<<<"o", "s">>, <<"s", "y", "s">>,
      <<"s", "u", "b", "p", "r", "o", "c", "e", "s", "s">>,
      <<"i", "m", "p", "o", "r", "t", "l", "i", "b">>,
      <<"s", "h", "u", "t", "i", "l">>>>

\* The first module of forbidden_imports the test at line 46 finds in the
\* code text, 0 when it finds none.
RECURSIVE FirstForbidden(_, _)
FirstForbidden(code, i) ==
    IF i > Len(forbidden_imports) THEN 0
    ELSE IF Contains(code, <<"i", "m", "p", "o", "r", "t", " ">> \o forbidden_imports[i])
            \/ Contains(code, <<"f", "r", "o", "m", " ">> \o forbidden_imports[i])
         THEN i
         ELSE FirstForbidden(code, i + 1)

\* Code texts the model passes, each with what Python does when it runs
\* them: the modules the text imports, what it prints, which of the names
\* result and output it leaves in local_vars (assigned) with the str() of
\* their values, and the exception it raises ("" when it raises none).
Code(text, imports, printed, result, raises) ==
    [text |-> text, imports |-> imports, printed |-> printed,
     result |-> result, raises |-> raises, output |-> <<>>,
     assigned |-> IF result # <<>> THEN {"result"} ELSE {}]

PrintCode == Code(<<"p", "r", "i", "n", "t", "(", "1", ")">>, {}, <<"1", "\n">>, <<>>, "")
ResultCode == Code(<<"r", "e", "s", "u", "l", "t", "=", "2">>, {}, <<>>, <<"2">>, "")
SilentCode == Code(<<"x", "=", "1">>, {}, <<>>, <<>>, "")
FailingCode == Code(<<"1", "/", "0">>, {}, <<>>, <<>>, "ZeroDivisionError")
ExitCode == Code(<<"e", "x", "i", "t", "(", ")">>, {}, <<>>, <<>>, "SystemExit")
ImportOs == Code(<<"i", "m", "p", "o", "r", "t", " ", "o", "s">>, {"os"}, <<>>, <<>>, "")
FromSys == Code(<<"f", "r", "o", "m", " ", "s", "y", "s", " ", "i", "m", "p", "o", "r", "t", " ", "p", "a", "t", "h">>, {"sys"}, <<>>, <<>>, "")
\* output=3
OutputCode ==
    [Code(<<"o", "u", "t", "p", "u", "t", "=", "3">>, {}, <<>>, <<>>, "")
       EXCEPT !.output = <<"3">>, !.assigned = {"output"}]
\* print(1);output=3
PrintOutputCode ==
    [Code(<<"p", "r", "i", "n", "t", "(", "1", ")", ";", "o", "u", "t", "p", "u", "t", "=", "3">>,
          {}, <<"1", "\n">>, <<>>, "")
       EXCEPT !.output = <<"3">>, !.assigned = {"output"}]
\* print(1);output=3;result=2
AllCode ==
    [Code(<<"p", "r", "i", "n", "t", "(", "1", ")", ";", "o", "u", "t", "p", "u", "t", "=", "3",
            ";", "r", "e", "s", "u", "l", "t", "=", "2">>, {}, <<"1", "\n">>, <<"2">>, "")
       EXCEPT !.output = <<"3">>, !.assigned = {"result", "output"}]
\* print(1);result=''
EmptyResultCode ==
    [Code(<<"p", "r", "i", "n", "t", "(", "1", ")", ";", "r", "e", "s", "u", "l", "t", "=", "'", "'">>,
          {}, <<"1", "\n">>, <<>>, "")
       EXCEPT !.assigned = {"result"}]
\* print()
BlankPrintCode == Code(<<"p", "r", "i", "n", "t", "(", ")">>, {}, <<"\n">>, <<>>, "")
ImportList == Code(<<"i", "m", "p", "o", "r", "t", " ", "r", "e", ",", "o", "s">>, {"re", "os"}, <<>>, <<>>, "")

Codes == {PrintCode, ResultCode, SilentCode, FailingCode, ExitCode,
          ImportOs, FromSys, ImportList, OutputCode, PrintOutputCode, AllCode,
          EmptyResultCode, BlankPrintCode}

\* Exceptions that derive from BaseException and not from Exception.
BaseExceptions == {"SystemExit", "KeyboardInterrupt"}

\* The payload and its declared format; whether the loader of that format
\* parses the payload is the payload's own property.
Payloads == [data_format : {"tsv", "json"}, parses : BOOLEAN]

\* The threads of the executor that runs the synchronous tool.
Workers == {1, 2}

\* sys.stdout at process start; the capture of worker w is stream w.
Console == 0

Streams == {Console} \cup Workers

\* Result strings, as the sequence of their literal parts and values.
SecurityError(mod) == <<"Security Error", ": Import of '", mod, "' is restricted.">>
LoadError(e) == <<"Error", " loading data: ", e>>
ExecutionError(e) == <<"Error", " executing analysis code: ", e>>
NoOutput == <<"Analysis completed but no output produced (print results or assign to 'result' variable).">>

\* One call: where the thread is (pc), its arguments, its locals
\* original_stdout and final_result, the exception that left it (raised),
\* and, for the properties, whether the data was loaded and the code run.
NoCall ==
    [pc |-> "idle", code |-> SilentCode, payload |-> [data_format |-> "json", parses |-> TRUE],
     original_stdout |-> Console, final_result |-> <<>>, pending |-> "",
     raised |-> "", loaded |-> FALSE, executed |-> FALSE]

\* run_python_analysis going on to run the code when the data did not load.
run_ignoring_load_failure(code, payload) ==
    LET c == [NoCall EXCEPT !.code = code, !.payload = payload]
        found == FirstForbidden(code.text, 1)
    IN  IF found # 0
        THEN [c EXCEPT !.pc = "returned",
                       !.final_result = SecurityError(forbidden_imports[found])]
        ELSE [c EXCEPT !.pc = "save", !.loaded = payload.parses]

\* Lines 42-100: the security check, then the data load.  The call returns
\* from either, or goes on to line 112.
run_python_analysis(code, payload) ==
    LET c == [NoCall EXCEPT !.code = code, !.payload = payload]
        found == FirstForbidden(code.text, 1)
    IN  IF found # 0
        THEN [c EXCEPT !.pc = "returned",
                       !.final_result = SecurityError(forbidden_imports[found])]
        ELSE IF ~payload.parses
        THEN [c EXCEPT !.pc = "returned", !.final_result = LoadError("ParseError")]
        ELSE [c EXCEPT !.pc = "save", !.loaded = TRUE]

\* Line 125, exec(code, ...): what the code prints goes to the stream that
\* is sys.stdout while it runs.
Executed(c) ==
    IF c.code.raises = "" THEN [c EXCEPT !.pc = "extract", !.executed = TRUE]
    ELSE [c EXCEPT !.pc = "restore", !.executed = TRUE, !.pending = c.code.raises,
                   !.final_result = IF c.code.raises \in BaseExceptions THEN <<>>
                                    ELSE ExecutionError(c.code.raises)]

\* Extracted looking at the variable output before the variable result.
ExtractedOutputFirst(c, output) ==
    [c EXCEPT !.pc = "restore",
              !.final_result = IF "output" \in c.code.assigned THEN c.code.output
                               ELSE IF "result" \in c.code.assigned THEN c.code.result
                               ELSE IF Strip(output) # <<>> THEN output
                               ELSE NoOutput]

\* Lines 129-141: the variable result, else the variable output, else
\* stdout when it holds more than whitespace, else the fixed sentence.
Extracted(c, output) ==
    [c EXCEPT !.pc = "restore",
              !.final_result = IF "result" \in c.code.assigned THEN c.code.result
                               ELSE IF "output" \in c.code.assigned THEN c.code.output
                               ELSE IF Strip(output) # <<>> THEN output
                               ELSE NoOutput]

\* Line 147 and the return: an exception the handler at line 143 did not
\* catch leaves the function.
Restored(c) ==
    IF c.pending \in BaseExceptions
    THEN [c EXCEPT !.pc = "raised", !.raised = c.pending]
    ELSE [c EXCEPT !.pc = "returned"]

AnalysisIdle ==
    /\ running = [w \in Workers |-> NoCall]
    /\ sys_stdout = Console
    /\ buffers = [st \in Streams |-> <<>>]

(* ------------- tools/feedback.py, api_client.py, definitions.py -------- *)

\* Largest number of record_user_preference calls.
MaxWrites == 3

Users == {"ada", "bob"}
Categories == {"response_style", "custom"}
Preferences == {"brief", "expert"}

\* Every user writing to one file.
SharedPrefPath(user_id) == <<"./.memory", "users", "preferences.json">>

\* os.path.join(MEMORY_ROOT, "users", user_id, "preferences.json")
_get_user_pref_path(user_id) == <<"./.memory", "users", user_id, "preferences.json">>

Paths == {_get_user_pref_path(u) : u \in Users}

\* A preferences file: absent, unparsable, or a JSON object kept as a
\* sequence of <<category, entry>> pairs.
NoEntry == [text |-> "", timestamp |-> 0]
AbsentFile == [state |-> "absent", entries |-> <<>>]
CorruptFile == [state |-> "corrupt", entries |-> <<>>]
JsonFile(entries) == [state |-> "json", entries |-> entries]
StoredFile == JsonFile(<< <<"custom", [text |-> "old", timestamp |-> 0]>> >>)

\* What a tool gives its caller: a value, or an exception that leaves it.
\* seen is the object a reader parsed from the file.
Reply(tool, user, category, raised, value, seen) ==
    [tool |-> tool, user |-> user, category |-> category, raised |-> raised,
     value |-> value, seen |-> seen, failure |-> FALSE]

NoReply == Reply("", "", "", "", <<>>, <<>>)

\* record_user_preference writing the new entry into an empty object.
record_starting_fresh(file, category, preference, now) ==
    JsonFile(<< <<category, [text |-> preference, timestamp |-> now]>> >>)

\* Lines 41-60: the file after record_user_preference: the object read from
\* it (empty when the file is absent or does not parse) with the entry of
\* the category set.
record_user_preference(file, category, preference, now) ==
    LET current_prefs == IF file.state = "json" THEN file.entries ELSE <<>>
    IN  JsonFile(DictSet(current_prefs, category,
                         [text |-> preference, timestamp |-> now]))

\* Lines 141-146: one block per entry.
RECURSIVE PreferenceLines(_)
PreferenceLines(entries) ==
    IF entries = <<>> THEN <<>>
    ELSE <<"**", Head(entries)[1], "**\n- ", Head(entries)[2].text, "\n\n">>
         \o PreferenceLines(Tail(entries))

\* get_user_preferences: json.load at line 139 is not guarded.
get_user_preferences(user_id, file) ==
    IF file.state = "absent"
    THEN Reply("get_user_preferences", user_id, "", "",
               <<"### Your Preferences\n\nNo custom preferences set yet.">>, <<>>)
    ELSE IF file.state = "corrupt"
    THEN [Reply("get_user_preferences", user_id, "", "JSONDecodeError", <<>>, <<>>)
            EXCEPT !.failure = TRUE]
    ELSE Reply("get_user_preferences", user_id, "", "",
               <<"### Your Preferences\n\n">> \o PreferenceLines(file.entries)
               \o <<"\nTo update, say: \"I prefer [preference]\".">>,
               file.entries)

\* What chat.py, lines 60-76, makes of the file.
FileKind(file) ==
    IF file.state = "json" /\ file.entries # <<>> THEN "stored"
    ELSE IF file.state = "corrupt" THEN "corrupt"
    ELSE "absent"

\* How the HTTP exchange of a tool ends: a JSON body, a body that is not
\* JSON, an error status, no connection, or no answer within the timeout.
HttpOutcomes == {"json", "text", "status", "network", "timeout"}

\* The exchange did not give a body.
HttpFailures == {"status", "network", "timeout"}

\* G2PClient.get handing the failure on as the body it got.
G2PClient_get_unmarked(outcome) ==
    CASE outcome = "json" -> <<"<json>">>
      [] outcome = "text" -> <<"<text>">>
      [] outcome = "status" -> <<"API returned ", "404">>
      [] outcome = "network" -> <<"Request failed - ", "ConnectError">>
      [] outcome = "timeout" -> <<"Request failed - ", "ReadTimeout">>

\* G2PClient.get: lines 47-63.
G2PClient_get(outcome) ==
    CASE outcome = "json" -> <<"<json>">>
      [] outcome = "text" -> <<"<text>">>
      [] outcome = "status" -> <<"Error", ": API returned ", "404">>
      [] outcome = "network" -> <<"Error", ": Request failed - ", "ConnectError">>
      [] outcome = "timeout" -> <<"Error", ": Request failed - ", "ReadTimeout">>

\* G2PClient.post: lines 68-78.  response.json() is inside the try block:
\* a body that is not JSON ends in the handler of line 76.
G2PClient_post(outcome) ==
    CASE outcome = "json" -> <<"<json>">>
      [] outcome = "text" -> <<"Error", ": Request failed - ", "JSONDecodeError">>
      [] outcome = "status" -> <<"Error", ": API returned ", "404">>
      [] outcome = "network" -> <<"Error", ": Request failed - ", "ConnectError">>
      [] outcome = "timeout" -> <<"Error", ": Request failed - ", "ReadTimeout">>

get_gene_dossier(outcome) ==
    [Reply("get_gene_dossier", "", "", "", G2PClient_get(outcome), <<>>)
       EXCEPT !.failure = outcome \in HttpFailures]

map_variant_to_canonical(outcome) ==
    [Reply("map_variant_to_canonical", "", "", "", G2PClient_post(outcome), <<>>)
       EXCEPT !.failure = outcome \in HttpFailures]

\* fetch_pdb_file: client.get and raise_for_status are not guarded.
fetch_pdb_file(outcome) ==
    [Reply("fetch_pdb_file", "", "",
           CASE outcome = "status" -> "HTTPStatusError"
             [] outcome = "network" -> "ConnectError"
             [] outcome = "timeout" -> "ReadTimeout"
             [] OTHER -> "",
           IF outcome \in {"json", "text"} THEN <<"<text>">> ELSE <<>>, <<>>)
       EXCEPT !.failure = outcome \in HttpFailures]

\* The clock seconds at which suggestions are submitted: the id of a
\* suggestion is "GS-" followed by the time to the second.
Seconds == {"20260101120000", "20260101120001"}

SuggestionIds == {<<"GS-", t>> : t \in Seconds}

SuggestionTexts == {"cite pLDDT", "mention conservation"}

\* The directories under ./.memory/global/lessons.
Directories == {"pending", "approved", "rejected"}

\* os.path.join(MEMORY_ROOT, "global", "lessons", <directory>, f"{id}.json")
SuggestionPaths == Directories \X SuggestionIds

_get_global_suggestion_path(suggestion_id) == <<"pending", suggestion_id>>

NoSuggestion ==
    [id |-> <<>>, suggestion |-> "", category |-> "", submitted_by |-> "", status |-> "absent"]

\* Lines 93-108: the record suggest_global_improvement writes.
suggest_global_improvement(category, suggestion, user_id, second) ==
    [id |-> <<"GS-", second>>, suggestion |-> suggestion, category |-> category,
     submitted_by |-> user_id, status |-> "pending_review"]

\* Lines 159-175: one line per file of the approved directory.
get_global_preferences(files) ==
    {<<"* [", files[p].category, "] ", files[p].suggestion>> :
        p \in {q \in SuggestionPaths : q[1] = "approved" /\ files[q] # NoSuggestion}}

\* orchestrator.py, line 31: what ROUTER_AGENT_PROMPT is formatted with.
NoPrompt == [built |-> FALSE, global_lessons |-> {}]

RouterPrompt ==
    [built |-> TRUE,
     global_lessons |-> {<<"(Loaded dynamically from /memories/global/lessons/approved)">>}]

GatewayIdle ==
    /\ store = [p \in Paths |-> AbsentFile]
    /\ reply = NoReply
    /\ written = [k \in Users \X Categories |-> NoEntry]
    /\ suggestions = [p \in SuggestionPaths |-> NoSuggestion]
    /\ prompt = NoPrompt

(* ------------------------------ actions -------------------------------- *)

\* uuid4 event ids and datetime.now() timestamps are read off one counter:
\* every event gets a fresh id and a later time than the events before it.
Stamp(old, new) ==
    IF Len(new.events) > Len(old.events)
    THEN [new EXCEPT !.events[Len(new.events)].event_id = clock + 1,
                     !.events[Len(new.events)].timestamp = clock + 1]
    ELSE new

Advance(s, new) ==
    /\ sess' = [sess EXCEPT ![s] = Stamp(sess[s], new)]
    /\ clock' = clock + (Len(new.events) - Len(sess[s].events))
    /\ UNCHANGED <<pref_file, analysis, gateway, lessons>>

\* The transport asks for the first event.
Started(s) ==
    /\ sess[s].pc = "created"
    /\ \E sid \in StreamIds : Advance(s, Begin(sess[s], pref_file, sid))

\* The tables of all sessions put together.
RECURSIVE AllActions(_)
AllActions(ss) ==
    IF ss = {} THEN <<>>
    ELSE LET s == CHOOSE x \in ss : \A y \in ss : x <= y
         IN  sess[s].active_actions \o AllActions(ss \ {s})

\* Await with one active-action table for the whole service.
AwaitSharingTable(s, item) ==
    /\ sess[s].pc = "fetch"
    /\ item.kind = "msg" => sess[s].consumed < MaxStream
    /\ Advance(s, Receive([sess[s] EXCEPT !.active_actions = AllActions(Sess)], item))

\* The orchestrator's stream answers the await at line 96 with item.
Await(s, item) ==
    /\ sess[s].pc = "fetch"
    /\ item.kind = "msg" => sess[s].consumed < MaxStream
    /\ Advance(s, Receive(sess[s], item))

\* The transport asks for the next event.
Resumed(s) ==
    /\ sess[s].pc \in Yields
    /\ Advance(s, Continue(sess[s]))

\* The secondary model call answers with outcome.
AwaitTitle(s, outcome) ==
    /\ sess[s].pc = "title"
    /\ Advance(s, GenerateTitle(sess[s], outcome))

\* The client goes away: the transport closes the generator at its yield.
\* GeneratorExit is no Exception, so the handler at line 230 is not entered;
\* nothing in stream_response closes the update sequence it iterates.
Closed(s) ==
    /\ sess[s].pc \in Yields
    /\ Advance(s, [sess[s] EXCEPT !.pc = "closed", !.msg = NoMsg, !.tc = 0,
                                  !.action_id = ""])

(* -------------------------- one session -------------------------------- *)

Idle == [NewSession(<<>>) EXCEPT !.pc = "idle"]

\* One session, over any conversation, preference file and update stream.
Init ==
    /\ \E conv \in Conversations :
          sess = [s \in Sess |-> IF s = 1 THEN NewSession(conv) ELSE Idle]
    /\ clock = 0
    /\ pref_file \in PrefFiles
    /\ tape = <<>>
    /\ AnalysisIdle
    /\ GatewayIdle

Start == Started(1) /\ UNCHANGED tape

Fetch == (\E item \in StreamItems : Await(1, item)) /\ UNCHANGED tape

Resume == Resumed(1) /\ UNCHANGED tape

Title == (\E outcome \in TitleOutcomes : AwaitTitle(1, outcome)) /\ UNCHANGED tape

Close == Closed(1) /\ UNCHANGED tape

Next ==
    \/ Start
    \/ Fetch
    \/ Resume
    \/ Title
    \/ Close

Spec == Init /\ [][Next]_vars

(* ------------------------- the translator run twice -------------------- *)

\* Largest number of messages the stream delivers to the two runs.
TwinMaxStream == 2

\* Two runs of the translator over the same conversation, the same
\* preference file and the same raw updates.  The runs share nothing, so
\* they are stepped in turn: run 1 takes a step and leaves on the tape what
\* it was given, run 2 takes the same step and is given the same.
TwinInit ==
    /\ \E conv \in Conversations : sess = [s \in Sess |-> NewSession(conv)]
    /\ clock = 0
    /\ pref_file \in PrefFiles
    /\ tape = <<>>
    /\ AnalysisIdle
    /\ GatewayIdle

Token(of, item) == <<[of |-> of, item |-> item]>>

Given(of) == tape # <<>> /\ Head(tape).of = of

LeadStart == tape = <<>> /\ Started(1) /\ tape' = Token("start", <<>>)

FollowStart == Given("start") /\ Started(2) /\ tape' = <<>>

LeadResume == tape = <<>> /\ Resumed(1) /\ tape' = Token("resume", <<>>)

FollowResume == Given("resume") /\ Resumed(2) /\ tape' = <<>>

LeadFetch ==
    /\ tape = <<>>
    /\ \E item \in StreamItems :
          /\ item.kind = "msg" => sess[1].consumed < TwinMaxStream
          /\ Await(1, item)
          /\ tape' = Token("stream", item)

FollowFetch == Given("stream") /\ Await(2, Head(tape).item) /\ tape' = <<>>

LeadTitle ==
    /\ tape = <<>>
    /\ \E outcome \in TitleOutcomes : AwaitTitle(1, outcome) /\ tape' = Token("title", outcome)

FollowTitle == Given("title") /\ AwaitTitle(2, Head(tape).item) /\ tape' = <<>>

TwinNext ==
    \/ LeadStart
    \/ FollowStart
    \/ LeadResume
    \/ FollowResume
    \/ LeadFetch
    \/ FollowFetch
    \/ LeadTitle
    \/ FollowTitle

Twin == TwinInit /\ [][TwinNext]_vars

(* ------------------ run_python_analysis in threads --------------------- *)

ChatIdle ==
    /\ sess = [s \in Sess |-> Idle]
    /\ clock = 0
    /\ pref_file = "absent"
    /\ tape = <<>>

chat == <<sess, clock, pref_file, tape>>

\* The gateway starts the tool in a worker thread.
Invoke(w) ==
    /\ running[w].pc = "idle"
    /\ \E code \in Codes, payload \in Payloads :
          running' = [running EXCEPT ![w] = run_python_analysis(code, payload)]
    /\ UNCHANGED <<sys_stdout, buffers, chat, gateway, lessons>>

\* Line 113: original_stdout = sys.stdout
SaveStdout(w) ==
    /\ running[w].pc = "save"
    /\ running' = [running EXCEPT ![w].original_stdout = sys_stdout, ![w].pc = "redirect"]
    /\ UNCHANGED <<sys_stdout, buffers, chat, gateway, lessons>>

\* Lines 104 and 114: sys.stdout = output_capture, a new StringIO.
Redirect(w) ==
    /\ running[w].pc = "redirect"
    /\ sys_stdout' = w
    /\ running' = [running EXCEPT ![w].pc = "exec"]
    /\ UNCHANGED <<buffers, chat, gateway, lessons>>

Exec(w) ==
    /\ running[w].pc = "exec"
    /\ running' = [running EXCEPT ![w] = Executed(running[w])]
    /\ buffers' = [buffers EXCEPT ![sys_stdout] = @ \o running[w].code.printed]
    /\ UNCHANGED <<sys_stdout, chat, gateway, lessons>>

\* Line 129: output = output_capture.getvalue()
Extract(w) ==
    /\ running[w].pc = "extract"
    /\ running' = [running EXCEPT ![w] = Extracted(running[w], buffers[w])]
    /\ UNCHANGED <<sys_stdout, buffers, chat, gateway, lessons>>

\* Line 147: sys.stdout = original_stdout
Restore(w) ==
    /\ running[w].pc = "restore"
    /\ sys_stdout' = running[w].original_stdout
    /\ running' = [running EXCEPT ![w] = Restored(running[w])]
    /\ UNCHANGED <<buffers, chat, gateway, lessons>>

AnalysisInit == ChatIdle /\ AnalysisIdle /\ GatewayIdle

AnalysisNext ==
    \/ \E w \in Workers : Invoke(w)
    \/ \E w \in Workers : SaveStdout(w)
    \/ \E w \in Workers : Redirect(w)
    \/ \E w \in Workers : Exec(w)
    \/ \E w \in Workers : Extract(w)
    \/ \E w \in Workers : Restore(w)

\* Calls of run_python_analysis running in the executor's threads.
Analysis == AnalysisInit /\ [][AnalysisNext]_vars

(* --------------------------- the tool gateway -------------------------- *)

\* A coroutine tool has no await between its first line and its return: it
\* runs as one step of the event loop.
Record(u, c, t) ==
    /\ clock < MaxWrites
    /\ LET path == _get_user_pref_path(u)
           now == clock + 1
       IN  /\ store' = [store EXCEPT ![path] = record_user_preference(@, c, t, now)]
           /\ written' = [written EXCEPT ![<<u, c>>] = [text |-> t, timestamp |-> now]]
           /\ reply' = Reply("record_user_preference", u, c, "",
                             <<"Preference Saved", c, t>> \o path, <<>>)
    /\ clock' = clock + 1
    /\ UNCHANGED <<sess, pref_file, tape, analysis, lessons>>

GetPreferences(u) ==
    /\ reply' = get_user_preferences(u, store[_get_user_pref_path(u)])
    /\ UNCHANGED <<store, written, chat, analysis, lessons>>

\* chat.py, lines 60-76, reading the preferences of the session's user.
LoadUserPreferences(u) ==
    LET file == store[_get_user_pref_path(u)]
    IN  /\ reply' = Reply("stream_response", u, "", "", LoadPreferences(FileKind(file)),
                          IF file.state = "json" THEN file.entries ELSE <<>>)
        /\ UNCHANGED <<store, written, chat, analysis, lessons>>

GeneDossier ==
    /\ \E outcome \in HttpOutcomes : reply' = get_gene_dossier(outcome)
    /\ UNCHANGED <<store, written, chat, analysis, lessons>>

MapVariant ==
    /\ \E outcome \in HttpOutcomes : reply' = map_variant_to_canonical(outcome)
    /\ UNCHANGED <<store, written, chat, analysis, lessons>>

FetchPdb ==
    /\ \E outcome \in HttpOutcomes : reply' = fetch_pdb_file(outcome)
    /\ UNCHANGED <<store, written, chat, analysis, lessons>>

GatewayInit ==
    /\ ChatIdle
    /\ AnalysisIdle
    /\ store \in [Paths -> {AbsentFile, CorruptFile, StoredFile}]
    /\ reply = NoReply
    /\ written = [k \in Users \X Categories |-> NoEntry]
    /\ suggestions = [p \in SuggestionPaths |-> NoSuggestion]
    /\ prompt = NoPrompt

GatewayNext ==
    \/ \E u \in Users, c \in Categories, t \in Preferences : Record(u, c, t)
    \/ \E u \in Users : GetPreferences(u)
    \/ \E u \in Users : LoadUserPreferences(u)
    \/ GeneDossier
    \/ MapVariant
    \/ FetchPdb

\* Tool calls and preference reads of independent sessions, in any order.
Gateway == GatewayInit /\ [][GatewayNext]_vars

(* -------------------------- global suggestions ------------------------- *)

Suggest(u, t, second) ==
    LET record == suggest_global_improvement("citation_rules", t, u, second)
    IN  /\ suggestions' =
               [suggestions EXCEPT ![_get_global_suggestion_path(record.id)] = record]
        /\ UNCHANGED <<prompt, chat, analysis, gateway>>

\* The administrators' review, outside the program: a pending file is moved
\* to the directory of the verdict, with its status set to the verdict.
Review(id, verdict) ==
    /\ suggestions[<<"pending", id>>] # NoSuggestion
    /\ suggestions' = [suggestions EXCEPT
                          ![<<"pending", id>>] = NoSuggestion,
                          ![<<verdict, id>>] =
                              [suggestions[<<"pending", id>>] EXCEPT !.status = verdict]]
    /\ UNCHANGED <<prompt, chat, analysis, gateway>>

\* The service is started: orchestrator.py builds the router agent.
BuildRouter ==
    /\ prompt' = RouterPrompt
    /\ UNCHANGED <<suggestions, chat, analysis, gateway>>

LessonsInit == ChatIdle /\ AnalysisIdle /\ GatewayIdle

LessonsNext ==
    \/ \E u \in Users, t \in SuggestionTexts, second \in Seconds : Suggest(u, t, second)
    \/ \E id \in SuggestionIds, verdict \in {"approved", "rejected"} : Review(id, verdict)
    \/ BuildRouter

\* Suggestions submitted, reviewed, and the router built, in any order (the
\* files outlive the process).
Lessons == LessonsInit /\ [][LessonsNext]_vars

(* ----------------------- two sessions interleaved ---------------------- *)

\* Largest number of messages the stream delivers to each of the sessions.
PairMaxStream == 2

\* The updates the two sessions are given: a call, results under its id,
\* texts, the end of the stream.
PairItems ==
    {[kind |-> "msg", msg |-> AIMessage(<<DossierCall>>, EmptyText)],
     [kind |-> "msg", msg |-> ToolMessage("c2", PlainText)],
     [kind |-> "msg", msg |-> AIMessage(<<>>, PaddedText)],
     [kind |-> "end", msg |-> NoMsg]}

\* Two sessions of the one chat_service, each a first turn of a user with
\* stored preferences, served by the same event loop: any of them takes the
\* next step.
PairInit ==
    /\ sess = [s \in Sess |-> NewSession(<<ReqMsg("user", UserText)>>)]
    /\ clock = 0
    /\ pref_file = "stored"
    /\ tape = <<>>
    /\ AnalysisIdle
    /\ GatewayIdle

PairStart == \E s \in Sess : Started(s) /\ tape' = <<>>

\* The tape keeps the update just delivered, and to which session.
PairFetch ==
    \E s \in Sess, item \in PairItems :
        /\ item.kind = "msg" => sess[s].consumed < PairMaxStream
        /\ Await(s, item)
        /\ tape' = Token(s, item)

PairResume == \E s \in Sess : Resumed(s) /\ tape' = <<>>

PairTitle == \E s \in Sess : AwaitTitle(s, "call_failed") /\ tape' = <<>>

PairNext ==
    \/ PairStart
    \/ PairFetch
    \/ PairResume
    \/ PairTitle

Pair == PairInit /\ [][PairNext]_vars

(* ------------------------------ properties ----------------------------- *)

Events(s) == sess[s].events

Last(seq) == seq[Len(seq)]

\* The places of the events of session s that satisfy P.
Where(s, P(_)) == {i \in 1..Len(Events(s)) : P(Events(s)[i])}

IsEnd(e) == e.kind = "meta" /\ e.type = "end"
IsError(e) == e.kind = "meta" /\ e.type = "error"
IsTerminalMarker(e) == IsEnd(e) \/ IsError(e)
IsContent(e) == e.kind = "content"

\* The generator has returned or raised: the session is over, and the
\* client did not go away.
Finished(s) == sess[s].pc \in {"done", "raised"}

\* C1: every session that is not hard-disconnected ends with exactly one
\* meta end or meta error event as its last event: a finished session has
\* emitted exactly one terminal marker, and it is the last event.
C1_TerminalMarker ==
    Finished(1) =>
        /\ Events(1) # <<>>
        /\ IsTerminalMarker(Last(Events(1)))
        /\ Cardinality(Where(1, IsTerminalMarker)) = 1

\* The stream manifest, whatever its type field says.
IsManifest(e) == e.kind = "meta" /\ e.has_tiers

\* What the scenario is about in an event: its kind, its type (start for the
\* manifest) and, for an action, its status.
Shape(e) == <<e.kind, IF IsManifest(e) THEN "start" ELSE e.type, e.display_status>>

ScenarioShapes ==
    << <<"meta", "start", "">>, <<"thinking", "decision", "">>,
       <<"action", "delegation", "running">>, <<"action", "tool", "running">>,
       <<"action", "tool", "success">>, <<"content", "", "">>,
       <<"meta", "title", "">>, <<"meta", "end", "">> >>

\* A first-turn conversation of one user message.
OneUserMessage(s) ==
    /\ Len(sess[s].messages) = 1
    /\ sess[s].messages[1].role = "user"
    /\ sess[s].messages[1].has_content

\* C2: on a one-message first turn whose update stream is the scenario (a
\* delegation call, a gene dossier call, its result, the final text), the
\* finished session has emitted exactly start, decision, delegation running,
\* tool running, tool success, final content with the assistant's text,
\* title, end, in this order.
C2_ScenarioEvents ==
    (Finished(1) /\ OneUserMessage(1) /\ sess[1].scenario >= 0) =>
        /\ [i \in 1..Len(Events(1)) |-> Shape(Events(1)[i])] = ScenarioShapes
        /\ Events(1)[6].is_final
        /\ Events(1)[6].text = PlainText.s

IsRunningFor(e, id, name) ==
    /\ e.kind = "action"
    /\ e.display_status = "running"
    /\ e.action_id = id
    /\ e.type = IF name = "task" THEN "delegation" ELSE "tool"

\* C3: every tool call that has been registered in the active-action table
\* has its action event with status running on the wire (of type delegation
\* for the hand-off tool, else tool), except while the generator is suspended
\* between the decision and the action of that very call; so no call ends
\* the session instead of being announced.
C3_CallsAnnounced ==
    \A i \in 1..Len(sess[1].active_actions) :
        LET id == sess[1].active_actions[i][1]
            name == sess[1].active_actions[i][2].name
        IN  \/ sess[1].pc = "y_think" /\ sess[1].action_id = id
            \/ \E j \in 1..Len(Events(1)) : IsRunningFor(Events(1)[j], id, name)

\* C5: at most one content event is on the wire, it is final, and it is
\* there only once the raw update stream is exhausted: nothing is emitted as
\* content while updates are still being consumed.
C5_ContentOnceAtEnd ==
    /\ Cardinality(Where(1, IsContent)) <= 1
    /\ \A i \in Where(1, IsContent) : Events(1)[i].is_final
    /\ Where(1, IsContent) # {} => sess[1].exhausted

\* A finished session whose content event holds the text of two messages.
C5_Witness ==
    /\ sess[1].pc = "done"
    /\ Where(1, IsContent) # {}
    /\ Len(sess[1].accumulated) >= 2

\* The text of a content as the specification defines it: the string, or
\* the texts of the text-typed blocks, in order, separated by single spaces.
RECURSIVE SpacedTexts(_, _)
SpacedTexts(blocks, seen) ==
    IF blocks = <<>> THEN <<>>
    ELSE IF Head(blocks).type # "text" THEN SpacedTexts(Tail(blocks), seen)
    ELSE (IF seen THEN <<" ">> ELSE <<>>) \o Head(blocks).text
         \o SpacedTexts(Tail(blocks), TRUE)

TextOf(c) == IF c.k = "str" THEN c.s ELSE SpacedTexts(c.blocks, FALSE)

\* The texts of the accumulated messages, one after the other.
RECURSIVE Concatenated(_)
Concatenated(pieces) ==
    IF pieces = <<>> THEN <<>>
    ELSE TextOf(Head(pieces).content) \o Concatenated(Tail(pieces))

\* The same, each tool result followed by a blank line.
RECURSIVE Separated(_)
Separated(pieces) ==
    IF pieces = <<>> THEN <<>>
    ELSE TextOf(Head(pieces).content)
         \o (IF Head(pieces).type = "tool" THEN <<"\n", "\n">> ELSE <<>>)
         \o Separated(Tail(pieces))

\* C6 as claimed: the text of the content event is the whitespace-trimmed
\* concatenation, in arrival order, of the texts of the accumulated
\* text-bearing messages, with nothing inserted between them.
C6_PlainConcatenation ==
    \A i \in Where(1, IsContent) :
        Events(1)[i].text = Strip(Concatenated(sess[1].accumulated))

\* C6 as amended: the text of the content event is the whitespace-trimmed
\* concatenation, in arrival order, of the texts of the accumulated
\* text-bearing messages, each tool result's text followed by a blank line
\* (two newlines) and nothing else inserted.
C6_SeparatedConcatenation ==
    \A i \in Where(1, IsContent) :
        Events(1)[i].text = Strip(Separated(sess[1].accumulated))

\* A content event over a tool result followed by a flattened list message.
C6_Witness ==
    /\ Where(1, IsContent) # {}
    /\ Len(sess[1].accumulated) >= 2
    /\ sess[1].accumulated[1].type = "tool"
    /\ sess[1].accumulated[2].content = MixedBlocks

IsPrefixOf(a, b) == Len(a) <= Len(b) /\ SubSeq(b, 1, Len(a)) = a

\* The id of tool result m is not in the active-action table of st.
Orphan(st, m) ==
    /\ m.type = "tool"
    /\ \A i \in 1..Len(st.active_actions) : st.active_actions[i][1] # m.tool_call_id

\* C7: a step that receives a tool result whose id is not in the
\* active-action table (a missing or empty id included) emits no event, does
\* not fail the session, and on the first user turn leaves the buffer
\* extended by the result's text.
C7_OrphanResult ==
    [][\A m \in StreamMessages :
          ( /\ sess[1].pc = "fetch"
            /\ sess[1].consumed < MaxStream
            /\ Orphan(sess[1], m)
            /\ sess'[1] = Stamp(sess[1], Receive(sess[1], [kind |-> "msg", msg |-> m])) )
          => /\ sess'[1].events = sess[1].events
             /\ sess'[1].exc = ""
             /\ sess'[1].pc = "fetch"
             /\ sess[1].is_first_exchange =>
                   IsPrefixOf(sess[1].collected_content \o TextOf(m.content),
                              sess'[1].collected_content)]_vars

LoopErrors == {"StreamError", "TypeError"}

\* C9: once an exception has been raised inside the streaming loop, by the
\* update stream or while translating an update, the last event is the one
\* meta error event, carrying the error message and the stream id, no end
\* event is on the wire, and the generator, if resumed, has raised the same
\* exception to the transport.
C9_LoopFailure ==
    sess[1].exc \in LoopErrors =>
        /\ sess[1].pc \in {"y_error", "raised", "closed"}
        /\ Events(1) # <<>>
        /\ IsError(Last(Events(1)))
        /\ Last(Events(1)).error = sess[1].exc
        /\ Last(Events(1)).stream_id = sess[1].stream_id
        /\ Cardinality(Where(1, IsError)) = 1
        /\ Where(1, IsEnd) = {}
        /\ sess[1].pc = "raised" => sess[1].propagated = sess[1].exc

\* The update stream raised after a message, and the failure was re-raised.
C9_Witness ==
    /\ sess[1].pc = "raised"
    /\ sess[1].exc = "StreamError"
    /\ sess[1].consumed >= 1
    /\ IsError(Last(Events(1)))

\* An event without the fields that differ from run to run by design.
Unstamped(e) == [e EXCEPT !.event_id = 0, !.timestamp = 0]
Anonymous(e) == [Unstamped(e) EXCEPT !.stream_id = ""]

\* The two runs have taken the same steps.
InStep == tape = <<>>

\* C10 as claimed: two runs over the same conversation and the same raw
\* updates, with the same title outcome, have emitted event sequences equal
\* in every field other than event_id and timestamp.
C10_SameButIdAndTime ==
    InStep =>
        /\ sess[1].pc = sess[2].pc
        /\ [i \in 1..Len(Events(1)) |-> Unstamped(Events(1)[i])]
             = [i \in 1..Len(Events(2)) |-> Unstamped(Events(2)[i])]

\* C10 as amended: the two event sequences are equal in every field other
\* than event_id, timestamp and the stream_id of the meta events.
C10_SameButIdTimeAndStream ==
    InStep =>
        /\ sess[1].pc = sess[2].pc
        /\ [i \in 1..Len(Events(1)) |-> Anonymous(Events(1)[i])]
             = [i \in 1..Len(Events(2)) |-> Anonymous(Events(2)[i])]

\* Both runs finished, with content and a title, under different stream ids.
C10_Witness ==
    /\ InStep
    /\ sess[1].pc = "done"
    /\ sess[2].pc = "done"
    /\ sess[1].stream_id # sess[2].stream_id
    /\ Len(Events(1)) >= 4

IsTitle(e) == e.kind = "meta" /\ e.type = "title"

\* The session is past the title step of a first turn with content.
PastTitleStep(s) ==
    /\ sess[s].is_first_exchange
    /\ Where(s, IsContent) # {}
    /\ sess[s].pc \in {"y_title", "y_end", "y_error", "done", "raised"}

\* C11: no failure of the title/summary step (model construction, model
\* call, unparsable or wrongly shaped reply) surfaces: a first-turn session
\* that is past that step has emitted a title event and no meta error, and
\* no exception is in hand.
C11_TitleNeverFails ==
    PastTitleStep(1) =>
        /\ Where(1, IsTitle) # {}
        /\ Where(1, IsError) = {}
        /\ sess[1].exc = ""

\* The caller's list with text prepended to its first user message.
PrependedToFirstUser(conv, text) ==
    LET users == {i \in 1..Len(conv) : conv[i].role = "user"}
    IN  IF text = <<>> \/ users = {} THEN conv
        ELSE LET first == CHOOSE i \in users : \A j \in users : i <= j
             IN  [conv EXCEPT ![first].content = text \o @]

\* C19: once stream_response has run its preamble and sent the manifest,
\* the caller's message list is the list as passed, except that the loaded
\* preference text (when there is some and the conversation has a user
\* message) is prepended to the content of the first user message; nothing
\* else is changed.
C19_PrependFirstUser ==
    Events(1) # <<>> =>
        sess[1].messages = PrependedToFirstUser(sess[1].received, LoadPreferences(pref_file))

\* C20: every event on the wire, of every kind, carries an event_id, a
\* timestamp and a visibility tier, and no two events of the session share
\* an event_id.
C20_EventEnvelope ==
    /\ \A i \in 1..Len(Events(1)) :
          /\ Events(1)[i].event_id # 0
          /\ Events(1)[i].timestamp # 0
          /\ Events(1)[i].visibility \in {"minimal", "standard", "advanced"}
    /\ \A i, j \in 1..Len(Events(1)) :
          Events(1)[i].event_id = Events(1)[j].event_id => i = j

\* The modules the sandbox denies, by name.
Denylisted == {"os", "sys", "subprocess", "importlib", "shutil"}

\* C13: a call of run_python_analysis whose code imports a denylisted
\* module has returned a string beginning with "Security Error", has neither
\* loaded the data nor run the code, and has raised nothing.
C13_DenylistRejects ==
    \A w \in Workers :
        (running[w].pc # "idle" /\ running[w].code.imports \cap Denylisted # {}) =>
            /\ running[w].pc = "returned"
            /\ Head(running[w].final_result) = "Security Error"
            /\ ~running[w].loaded
            /\ ~running[w].executed
            /\ running[w].raised = ""

\* The call got past the security check and its payload did not parse, or
\* its code raised.
Failed(c) ==
    \/ c.executed /\ c.code.raises # ""
    \/ FirstForbidden(c.code.text, 1) = 0 /\ ~c.payload.parses

\* C14: no exception raised while run_python_analysis parses the payload or
\* runs the code leaves the call, exits and interrupts included: a call whose
\* payload does not parse or whose code raises returns a string that begins
\* with "Error".
C14_ErrorsBecomeResults ==
    \A w \in Workers :
        /\ running[w].raised = ""
        /\ running[w].pc # "raised"
        /\ (running[w].pc = "returned" /\ Failed(running[w]))
           => Head(running[w].final_result) = "Error"

\* No call of run_python_analysis is under way.
Quiescent == \A w \in Workers : running[w].pc \in {"idle", "returned", "raised"}

\* C15: once every call of run_python_analysis has returned, overlapping
\* calls included, the process-wide standard output is the stream it was
\* before the calls, and a call that printed (and assigned no result) has
\* returned exactly what it printed: no output of another call, none lost.
C15_StdoutUntouched ==
    Quiescent =>
        /\ sys_stdout = Console
        /\ \A w \in Workers :
              (running[w].pc = "returned" /\ running[w].executed
               /\ running[w].code.raises = "" /\ running[w].code.assigned = {})
              => running[w].final_result =
                     IF Strip(running[w].code.printed) # <<>>
                     THEN running[w].code.printed ELSE NoOutput

\* C12: no tool of the gateway raises past its boundary: whatever the
\* failure of its external call or of its parsing (network, HTTP status,
\* malformed data, corrupt stored file), the last tool called has raised
\* nothing and has returned an error string.
C12_NoToolRaises ==
    /\ reply.raised = ""
    /\ reply.failure => (reply.value # <<>> /\ Head(reply.value) = "Error")

\* The entry stored under (u, c): NoEntry when the file is absent or
\* unparsable or has no such category.
Entry(files, u, c) ==
    LET file == files[_get_user_pref_path(u)]
    IN  IF file.state = "json" THEN DictGet(file.entries, c, NoEntry) ELSE NoEntry

Readers == {"get_user_preferences", "stream_response"}

\* C16: under any interleaving of preference writes and reads, every
\* (user, category) key that has been written holds the entry of the last
\* write to it (so no write to another category or user has discarded it),
\* and the last reader has been given whole entries, namely the ones stored
\* for its user.
C16_LastWriteWins ==
    /\ \A u \in Users, c \in Categories :
          written[<<u, c>>] # NoEntry => Entry(store, u, c) = written[<<u, c>>]
    /\ (reply.tool \in Readers /\ reply.raised = "") =>
          \A c \in Categories : DictGet(reply.seen, c, NoEntry) = Entry(store, reply.user, c)

\* Both categories of one user written, one of them twice, then read back.
C16_Witness ==
    /\ reply.tool = "get_user_preferences"
    /\ Len(reply.seen) = 2
    /\ \E c \in Categories : written[<<reply.user, c>>].timestamp >= 3
    /\ \A c \in Categories : written[<<reply.user, c>>] # NoEntry

\* C17: a step changes a stored entry only if it is record_user_preference
\* for exactly that (user, category), and no step removes an entry: every
\* other category of the user and every entry of every other user is left
\* as it was, and what was once recorded stays.
C17_OnlyItsOwnKey ==
    [][\A u \in Users, c \in Categories :
          /\ Entry(store', u, c) # Entry(store, u, c) =>
                (reply'.tool = "record_user_preference" /\ reply'.user = u
                 /\ reply'.category = c)
          /\ Entry(store, u, c) # NoEntry => Entry(store', u, c) # NoEntry]_vars

\* Two users with recorded entries, one of them with both categories.
C17_Witness ==
    /\ \E u \in Users : \A c \in Categories : written[<<u, c>>] # NoEntry
    /\ \A u \in Users : \E c \in Categories : written[<<u, c>>] # NoEntry
    /\ reply.tool = "record_user_preference"

\* The buffer of st after a tool result m that announces nothing.
Collected(st, m) ==
    IF st.is_first_exchange /\ m.content.s # <<>>
    THEN st.collected_content \o m.content.s \o <<"\n", "\n">>
    ELSE st.collected_content

\* The text of the messages session st was given, trimmed.
OwnText(st) == Strip(Separated(st.accumulated))

\* C18: sessions that run interleaved are independent: a step that gives a
\* session a tool result whose id is not in that session's own table (be it
\* registered in the other session) emits no event, fails nothing and adds
\* the result to that session's buffer alone; and a content event a session
\* emits is made of the texts of its own update stream.
C18_SessionsIndependent ==
    [][/\ \A s \in Sess :
             ( /\ tape' # <<>>
               /\ Head(tape').of = s
               /\ Head(tape').item.kind = "msg"
               /\ Orphan(sess[s], Head(tape').item.msg) )
             => /\ sess'[s].events = sess[s].events
                /\ sess'[s].exc = ""
                /\ sess'[s].active_actions = sess[s].active_actions
                /\ sess'[s].collected_content = Collected(sess[s], Head(tape').item.msg)
                /\ \A t \in Sess \ {s} : sess'[t] = sess[t]
       /\ \A s \in Sess :
             (Len(sess'[s].events) > Len(sess[s].events)
              /\ IsContent(Last(sess'[s].events)))
             => Last(sess'[s].events).text = OwnText(sess'[s])]_vars

\* A session is given the result of a call that only the other session has
\* registered, and both sessions hold text of their own.
C18_Witness ==
    /\ tape # <<>>
    /\ Head(tape).item.kind = "msg"
    /\ Head(tape).item.msg.type = "tool"
    /\ \E s \in Sess :
          /\ Head(tape).of = s
          /\ ~DictHas(sess[s].active_actions, "c2")
          /\ \E t \in Sess \ {s} : DictHas(sess[t].active_actions, "c2")
          /\ sess[s].collected_content # <<>>

IsMeta(e) == e.kind = "meta"

\* The places of the meta events of session s.
MetaPlaces(s) == Where(s, IsMeta)

\* C21: every meta event carries a type that is one of start, title, end,
\* error; the first meta event has type start and carries the stream id and
\* the declared tiers; the stream id of an end or error event is the one of
\* the first meta event.
C21_MetaTypes ==
    /\ \A i \in MetaPlaces(1) : Events(1)[i].type \in {"start", "title", "end", "error"}
    /\ MetaPlaces(1) # {} =>
          LET first == Events(1)[CHOOSE i \in MetaPlaces(1) : \A j \in MetaPlaces(1) : i <= j]
          IN  /\ first.type = "start"
              /\ first.has_tiers
              /\ first.stream_id = sess[1].stream_id
              /\ \A i \in Where(1, IsTerminalMarker) : Events(1)[i].stream_id = first.stream_id

\* C23: once the client has disconnected (the stream of events was closed
\* at a yield), the orchestrator's update sequence is not left open: it was
\* never created, or has finished, or has been closed.
C23_DisconnectCloses ==
    sess[1].pc = "closed" => sess[1].astream \in {"none", "finished", "closed"}

\* The conversation as passed holds exactly one user message.
FirstUserTurn(s) ==
    Cardinality({i \in 1..Len(sess[s].received) : sess[s].received[i].role = "user"}) = 1

\* C27: a session that ended successfully (with meta end) has emitted, on
\* the first user turn, exactly one title event, after the content event if
\* there is one and before the end event, and no title event on any other
\* turn.
C27_OneTitleOnFirstTurn ==
    sess[1].pc = "done" =>
        IF FirstUserTurn(1)
        THEN /\ Cardinality(Where(1, IsTitle)) = 1
             /\ \A t \in Where(1, IsTitle) :
                   /\ \A c \in Where(1, IsContent) : c < t
                   /\ \A e \in Where(1, IsEnd) : t < e
        ELSE Where(1, IsTitle) = {}

\* The content of the first user message of the conversation as passed.
OwnMessage(s) ==
    LET users == {i \in 1..Len(sess[s].received) : sess[s].received[i].role = "user"}
    IN  sess[s].received[CHOOSE i \in users : \A j \in users : i <= j].content

\* C28: when title generation has failed (the model call failed or its
\* reply was not JSON), the title event carries the first six words of the
\* user's own message as title and its first 100 characters as summary,
\* stored preferences or not.
C28_FallbackFromOwnMessage ==
    sess[1].title_outcome \in {"call_failed", "not_json"} =>
        \A t \in Where(1, IsTitle) :
            /\ Events(1)[t].title = Join(Prefix(Split(OwnMessage(1)), 6), <<" ">>)
            /\ Events(1)[t].summary = Prefix(OwnMessage(1), 100)

IsDecision(e) == e.kind = "thinking" /\ e.type = "decision"

\* C29: thinking events are decisions of delegation calls only, and each is
\* immediately followed by the running delegation action of its call: every
\* thinking event on the wire is a decision, and once the generator has
\* been resumed after it, the next event is an action of type delegation
\* with status running.
C29_DecisionThenDelegation ==
    \A i \in 1..Len(Events(1)) :
        Events(1)[i].kind = "thinking" =>
            /\ IsDecision(Events(1)[i])
            /\ (i < Len(Events(1)) \/ sess[1].pc \notin {"y_think", "closed"}) =>
                  /\ i < Len(Events(1))
                  /\ Events(1)[i + 1].kind = "action"
                  /\ Events(1)[i + 1].type = "delegation"
                  /\ Events(1)[i + 1].display_status = "running"

\* The line a suggestion contributes to the global lessons.
LessonOf(file) == <<"* [", file.category, "] ", file.suggestion>>

\* C22: a suggestion is created with status pending_review, and the global
\* lessons of the router's prompt, once it is built, hold the line of every
\* suggestion whose status is approved and of no suggestion whose status is
\* pending_review or rejected.
C22_ApprovedOnly ==
    /\ \A p \in SuggestionPaths :
          (p[1] = "pending" /\ suggestions[p] # NoSuggestion) =>
              suggestions[p].status = "pending_review"
    /\ prompt.built =>
          \A p \in SuggestionPaths :
              suggestions[p] # NoSuggestion =>
                  (LessonOf(suggestions[p]) \in prompt.global_lessons
                       <=> \E q \in SuggestionPaths :
                              /\ suggestions[q].status = "approved"
                              /\ LessonOf(suggestions[q]) = LessonOf(suggestions[p]))

\* The calls the session has registered are all announced, as C3 states it
\* for any turn.
Announced(s) ==
    \A i \in 1..Len(sess[s].active_actions) :
        LET id == sess[s].active_actions[i][1]
            name == sess[s].active_actions[i][2].name
        IN  \/ sess[s].pc = "y_think" /\ sess[s].action_id = id
            \/ \E j \in 1..Len(Events(s)) : IsRunningFor(Events(s)[j], id, name)

\* C31: on a turn that is not the first user turn (the conversation holds no
\* user message, or more than one) nothing is buffered, whatever the update
\* stream carries: the buffer stays empty and the session emits no content
\* event and no title event; the tool calls of such a turn are announced by
\* their action events all the same.
C31_FollowUpTurnBuffersNothing ==
    (sess[1].pc # "created" /\ ~FirstUserTurn(1)) =>
        /\ sess[1].collected_content = <<>>
        /\ Where(1, IsContent) = {}
        /\ Where(1, IsTitle) = {}
        /\ Announced(1)

\* C32: a message carrying tool-call requests has them registered and
\* announced whatever its content is, so its translation never raises; and a
\* content event is on the wire only when some message brought text.
C32_CallsWhateverTheContent ==
    /\ sess[1].failed_on.tool_calls = <<>>
    /\ Where(1, IsContent) # {} => sess[1].accumulated # <<>>

\* C33: list-valued content never aborts the session, in a tool result or
\* in a model message, and what a list contributes to the buffer is the
\* texts of its text-typed entries joined by single spaces.
C33_ListsFlattened ==
    /\ sess[1].failed_on.content.k # "list"
    /\ (sess[1].pc = "fetch" /\ Len(sess[1].accumulated) = 1
          /\ sess[1].accumulated[1].content.k = "list") =>
           sess[1].collected_content = FlattenBlocks(sess[1].accumulated[1].content.blocks)

\* What the claim makes a successful run return: the first of result,
\* output, the captured standard output, the sentence that is there.
InPriorityOrder(code, captured) ==
    LET sources ==
            (IF "result" \in code.assigned THEN <<code.result>> ELSE <<>>)
            \o (IF "output" \in code.assigned THEN <<code.output>> ELSE <<>>)
            \o (IF Strip(captured) # <<>> THEN <<captured>> ELSE <<>>)
            \o <<NoOutput>>
    IN  Head(sources)

\* C34: the extraction step of a successful run of run_python_analysis sets
\* what the call returns to the string of result if the code assigned it,
\* else the string of output if assigned, else the captured standard output
\* if it is not blank, else the no-output sentence; nothing later changes it.
C34_ResultPriority ==
    [][\A w \in Workers :
          /\ (running[w].pc = "extract" /\ running'[w].pc # "extract") =>
                running'[w].final_result = InPriorityOrder(running[w].code, buffers[w])
          /\ (running[w].pc = "restore" /\ running[w].code.raises = "") =>
                running'[w].final_result = running[w].final_result]_vars

\* A call that printed and assigned both variables has returned result.
C34_Witness ==
    \E w \in Workers :
        /\ running[w].pc = "returned"
        /\ running[w].code = AllCode
        /\ running[w].final_result = <<"2">>

\* C35: a call whose code passes the denylist check and whose payload does
\* not parse has returned a string beginning with "Error loading data:" and
\* has not run the code; in every call the data is loaded only after the
\* denylist check passed, and the code is run only after the data loaded.
C35_LoadFailureStops ==
    \A w \in Workers :
        LET c == running[w]
        IN  /\ (c.pc # "idle" /\ FirstForbidden(c.code.text, 1) = 0 /\ ~c.payload.parses) =>
                  /\ c.pc = "returned"
                  /\ SubSeq(c.final_result, 1, 2) = <<"Error", " loading data: ">>
                  /\ ~c.loaded
                  /\ ~c.executed
            /\ c.loaded => FirstForbidden(c.code.text, 1) = 0 /\ c.payload.parses
            /\ c.executed => c.loaded

\* A call has returned the load error for a payload that does not parse
\* while the other call has run its code.
C35_Witness ==
    \E w, v \in Workers :
        /\ running[w].pc = "returned"
        /\ ~running[w].payload.parses
        /\ running[w].final_result = LoadError("ParseError")
        /\ running[v].executed

\* C36: a submission only creates a record: a step that writes a suggestion
\* file writes it where no file was, under an id that no stored suggestion
\* has, in whatever directory it is; so every suggestion stored before the
\* step is there after it, unaltered.
C36_SubmissionsOnlyCreate ==
    [][\A id \in SuggestionIds :
          LET p == <<"pending", id>>
          IN  (suggestions'[p] # suggestions[p] /\ suggestions'[p] # NoSuggestion) =>
                  /\ suggestions[p] = NoSuggestion
                  /\ \A q \in SuggestionPaths :
                        suggestions[q] # NoSuggestion =>
                            suggestions[q].id # suggestions'[p].id]_vars

\* The tools that go through G2PClient.get and G2PClient.post.
ClientTools == {"get_gene_dossier", "map_variant_to_canonical"}

\* C39: a call of a data-API tool whose exchange timed out, failed at the
\* network level or got an HTTP error status has raised nothing and has
\* returned a string that begins with "Error:".
C39_ClientFailuresAreResults ==
    (reply.tool \in ClientTools /\ reply.failure) =>
        /\ reply.raised = ""
        /\ Len(reply.value) >= 2
        /\ SubSeq(reply.value, 1, 2) \in
               {<<"Error", ": API returned ">>, <<"Error", ": Request failed - ">>}

\* A POST that timed out has been answered with the error string.
C39_Witness ==
    /\ reply.tool = "map_variant_to_canonical"
    /\ reply.failure
    /\ reply.value = <<"Error", ": Request failed - ", "ReadTimeout">>

\* C38: the first event of a session is the stream manifest and no later
\* event is one; the update sequence of the orchestrator is created, and
\* an update taken from it, only after the manifest has been emitted.
C38_ManifestFirst ==
    /\ Events(1) # <<>> => Where(1, IsManifest) = {1}
    /\ (sess[1].astream # "none" \/ sess[1].consumed > 0) =>
           (Events(1) # <<>> /\ IsManifest(Events(1)[1]))

\* A session that took two updates and ended with a content event.
C38_Witness ==
    /\ sess[1].pc = "done"
    /\ sess[1].consumed >= 2
    /\ Where(1, IsContent) # {}
    /\ IsManifest(Events(1)[1])

\* The parts of the argument summary as the claim gives them: the special
\* labels for gene, protein and variant keys, 'key: value' for every other.
RECURSIVE LabelledParts(_)
LabelledParts(args) ==
    IF args = <<>> THEN <<>>
    ELSE LET kv == Head(args)
         IN  << IF kv[1] \in {"gene_symbol", "gene"} THEN <<"Gene: ", kv[2]>>
                ELSE IF kv[1] \in {"uniprot_id", "protein_id"} THEN <<"Protein: ", kv[2]>>
                ELSE IF kv[1] = "variant" THEN <<"Variant: ", kv[2]>>
                ELSE <<kv[1], ": ", kv[2]>> >>
             \o LabelledParts(Tail(args))

\* C40: every plain tool call the session has registered has on the wire a
\* running action event whose display_title is the title the lookup gives
\* the tool name (the name itself when the lookup does not know it) and
\* whose display_summary is the argument summary, or the tool's description
\* when the summary is empty.
C40_RunningTitleAndSummary ==
    \A i \in 1..Len(sess[1].active_actions) :
        LET id == sess[1].active_actions[i][1]
            call == sess[1].active_actions[i][2]
            summary == Join(LabelledParts(call.args), <<" | ">>)
        IN  call.name # "task" =>
                \E j \in 1..Len(Events(1)) :
                    /\ IsRunningFor(Events(1)[j], id, call.name)
                    /\ Events(1)[j].display_title =
                           (IF call.name \in DOMAIN TOOL_INFO
                            THEN TOOL_INFO[call.name].title ELSE call.name)
                    /\ Events(1)[j].display_summary =
                           (IF summary # <<>> THEN summary
                            ELSE get_tool_info(call.name).description)

====
